---- MODULE Spec2Model ----
(***************************************************************************)
(* Model of action_plugins/versions.py: the HTTP helper with its retry     *)
(* loop, the three version resolvers and the action module that chains     *)
(* them.                                                                   *)
(*                                                                         *)
(* Text is a sequence of one-character strings, so that strip(), regular   *)
(* expression search and split() are computed character by character.      *)
(* Python values that may be None, str or int are tagged records.          *)
(***************************************************************************)
EXTENDS Integers, Sequences, FiniteSets, TLC

VARIABLES
    mode,       \* which entry point drives the behaviour: "run", "resolver", "http"
    task_vars,  \* ActionModule.run: the ambient task variables
    task_args,  \* ActionModule._task.args
    params,     \* ActionModule.run: the gathered parameters
    timeout,    \* ActionModule.run: the normalized timeout
    pc,         \* position of ActionModule.run
    cur,        \* the resolver whose resolve() is executing
    rpc,        \* position inside resolve() / the transport call
    explicit,   \* explicit_value of each resolver
    pyarg,      \* the aipscan_version argument of PythonResolver.resolve
    outcome,    \* what each resolve() returned or raised
    invoked,    \* the resolvers whose resolve() was called, in call order
    retries,    \* HttpClient.retries
    backoff,    \* HttpClient.backoff, in milliseconds
    attempt,    \* the local counter of _request_with_retry
    tried,      \* the outcomes of the call()s of the current transport call
    resp,       \* what the transport call returned or raised
    calls,      \* the transport calls made (fetch_bytes / head), in order
    requests,   \* total number of HTTP requests sent
    slept,      \* the pauses taken by the current transport call
    result      \* the dictionary returned by ActionModule.run

vars == <<mode, task_vars, task_args, params, timeout, pc, cur, rpc, explicit,
          pyarg, outcome, invoked, retries, backoff, attempt, tried, resp,
          calls, requests, slept, result>>

---------------------------------------------------------------------------
(* Program constants *)

PYPI_AIPSCAN_METADATA_URL == [pre |-> "https://pypi.org/pypi/aipscan/json"]
UV_LATEST_RELEASE_URL == [pre |-> "https://github.com/astral-sh/uv/releases/latest"]
\* PYTHON_VERSION_TEMPLATE.format(tag=...): the text before {tag}, the tag, the text after
PYTHON_VERSION_TEMPLATE(tag) ==
    [pre  |-> "https://raw.githubusercontent.com/artefactual-labs/AIPscan/refs/tags/",
     tag  |-> tag,
     post |-> "/.python-version"]
DEFAULT_TIMEOUT == 15
HTTP_RETRIES == 3
\* 0.5 seconds, counted in milliseconds
HTTP_RETRY_BACKOFF == 500

Resolvers == {"aipscan", "uv", "python"}
ResolverOrder == <<"aipscan", "uv", "python">>
ParamKeys == {"timeout", "aipscan_version", "aipscan_uv_version", "aipscan_python_version"}
VersionKey(r) ==
    CASE r = "aipscan" -> "aipscan_version"
      [] r = "uv"      -> "aipscan_uv_version"
      [] r = "python"  -> "aipscan_python_version"
FactKeys == {VersionKey(r) : r \in Resolvers}
RedirectCodesAnd304 == {301, 302, 303, 304, 307, 308}
RedirectCodes == {301, 302, 303, 307, 308}

---------------------------------------------------------------------------
(* Bounds of the model *)

\* largest retries argument given to HttpClient when it is driven directly
MaxRetries == 3
\* number of pieces a Location header is assembled from
MaxPieces == 4
\* largest absolute value of the numbers given as timeout
MaxTimeout == 20
\* largest length of the strings given as timeout
MaxTimeoutLen == 3

---------------------------------------------------------------------------
(* Python values *)

NoneV == [t |-> "none"]
StrV(s) == [t |-> "str", s |-> s]
IntV(n) == [t |-> "int", n |-> n]
DictV(d) == [t |-> "dict", d |-> d]
\* a JSON array (non-empty)
ListV == [t |-> "list"]
BoolV(b) == [t |-> "bool", b |-> b]
\* a float: finite (counted in tenths), "inf", "-inf" or "nan"
FloatV(f, tenths) == [t |-> "float", f |-> f, tenths |-> tenths]
\* the dictionary with no key
EmptyDict == [k \in {} |-> NoneV]

\* dict.get(key) with the default None
Get(d, k) == IF k \in DOMAIN d THEN d[k] ELSE NoneV

\* the truth value Python gives a value
Truthy(v) ==
    CASE v.t = "none" -> FALSE
      [] v.t = "str"  -> v.s # <<>>
      [] v.t = "int"  -> v.n # 0
      [] v.t = "dict" -> DOMAIN v.d # {}
      [] v.t = "list" -> TRUE
      [] v.t = "bool" -> v.b
      [] v.t = "float" -> v.f # "finite" \/ v.tenths # 0

Whitespace == {" ", "\n", "\t"}

RECURSIVE LStrip(_)
LStrip(s) == IF s # <<>> /\ Head(s) \in Whitespace THEN LStrip(Tail(s)) ELSE s

RECURSIVE RStrip(_)
RStrip(s) ==
    IF s # <<>> /\ s[Len(s)] \in Whitespace THEN RStrip(SubSeq(s, 1, Len(s) - 1)) ELSE s

\* str.strip()
Strip(s) == RStrip(LStrip(s))

\* _trim(value): (value or "").strip(); a truthy value that is not a str has
\* no strip() and raises AttributeError
TrimRaises(v) == Truthy(v) /\ v.t # "str"
TrimLeftOnly(v) == IF Truthy(v) THEN LStrip(v.s) ELSE <<>>
Trim(v) == IF Truthy(v) THEN Strip(v.s) ELSE <<>>

---------------------------------------------------------------------------
(* HttpClient *)

Max(a, b) == IF a >= b THEN a ELSE b

\* HttpClient.__init__
HttpClientRetries(r) == Max(1, r)
HttpClientBackoff(b) == Max(0, b)

\* _request_with_retry: the conditions under which the caught error is re-raised
RaiseHTTPErrorOffByOne(code, att, r) == code < 500 \/ att >= r
RaiseHTTPErrorAnyStatus(code, att, r) == att >= r - 1
RaiseHTTPError(code, att, r) == code < 500 \/ att >= r - 1
RaiseURLErrorOffByOne(att, r) == att >= r
RaiseURLError(att, r) == att >= r - 1

\* _sleep pausing for the backoff unit every time
SleepConstant(pauses, b, att) == IF b <= 0 THEN pauses ELSE Append(pauses, b)

\* _sleep(attempt): the pauses taken so far, with this one added
Sleep(pauses, b, att) == IF b <= 0 THEN pauses ELSE Append(pauses, b * (att + 1))

\* outcomes of one call()
OkResponse(body) == [k |-> "ok", body |-> body]
HTTPError(code, headers) == [k |-> "HTTPError", code |-> code, headers |-> headers]
URLError == [k |-> "URLError"]

---------------------------------------------------------------------------
(* Outcomes of resolve() *)

NotRun == [k |-> "none"]
Ok(v) == [k |-> "ok", v |-> v]
Raised(type, msg) == [k |-> "err", type |-> type, msg |-> msg]
ResolutionError(msg) == Raised("ResolutionError", msg)

\* bytes.decode("utf-8") and json.loads are library code: a body says whether
\* it decodes, and what it parses to
Undecodable == [utf8 |-> FALSE]
JsonBody(doc) == [utf8 |-> TRUE, json |-> doc]
NotJson == [t |-> "invalid"]
TextBody(s) == [utf8 |-> TRUE, text |-> s]

---------------------------------------------------------------------------
(* AIPscanResolver *)

\* _fetch_json, from the outcome of fetch_bytes: the payload, or what is raised
FetchJson(r, url) ==
    CASE r.k = "HTTPError" ->
           ResolutionError([text |-> "HTTP {code} retrieving {url}",
                            code |-> r.code, url |-> url])
      [] r.k = "URLError" ->
           ResolutionError([text |-> "Unable to retrieve JSON from {url}: {exc}",
                            url |-> url])
      [] r.k = "ok" ->
           IF ~r.body.utf8 THEN Raised("UnicodeDecodeError", [text |-> "decode"])
           ELSE IF r.body.json.t = "invalid"
                THEN ResolutionError([text |-> "Failed to parse JSON from {url}: {exc}",
                                      url |-> url])
                ELSE Ok(r.body.json)

\* the version field returned as PyPI gave it, without trimming
AIPscanVersionUntrimmed(payload) ==
    IF payload.t # "dict" THEN Raised("AttributeError", [text |-> "get"])
    ELSE LET info == IF "info" \in DOMAIN payload.d THEN payload.d["info"]
                     ELSE DictV(EmptyDict)
         IN  IF info.t # "dict" THEN Raised("AttributeError", [text |-> "get"])
             ELSE LET raw == Get(info.d, "version")
                  IN  IF TrimRaises(raw) THEN Raised("AttributeError", [text |-> "strip"])
                      ELSE IF Trim(raw) = <<>>
                           THEN ResolutionError(
                                  [text |-> "PyPI metadata for AIPscan did not include a version field."])
                           ELSE Ok(raw.s)

\* resolve(), after _fetch_json: payload.get("info", {}).get("version"), trimmed
AIPscanVersion(payload) ==
    IF payload.t # "dict" THEN Raised("AttributeError", [text |-> "get"])
    ELSE LET info == IF "info" \in DOMAIN payload.d THEN payload.d["info"]
                     ELSE DictV(EmptyDict)
         IN  IF info.t # "dict" THEN Raised("AttributeError", [text |-> "get"])
             ELSE LET raw == Get(info.d, "version")
                  IN  IF TrimRaises(raw) THEN Raised("AttributeError", [text |-> "strip"])
                      ELSE IF Trim(raw) = <<>>
                           THEN ResolutionError(
                                  [text |-> "PyPI metadata for AIPscan did not include a version field."])
                           ELSE Ok(Trim(raw))

AIPscanFinish(r) ==
    LET fetched == FetchJson(r, PYPI_AIPSCAN_METADATA_URL)
    IN  IF fetched.k = "err" THEN fetched ELSE AIPscanVersion(fetched.v)

---------------------------------------------------------------------------
(* UvResolver *)

TagPrefix == <<"/", "t", "a", "g", "/">>
\* the characters the class [^/?#] excludes
TagStop == {"/", "?", "#"}

\* whether the pattern /tag/([^/?#]+) matches at position i
MatchAt(loc, i) ==
    /\ i + Len(TagPrefix) <= Len(loc)
    /\ SubSeq(loc, i, i + Len(TagPrefix) - 1) = TagPrefix
    /\ loc[i + Len(TagPrefix)] \notin TagStop

\* re.search: the leftmost position where the pattern matches, 0 when none
RECURSIVE SearchFrom(_, _)
SearchFrom(loc, i) ==
    IF i > Len(loc) THEN 0
    ELSE IF MatchAt(loc, i) THEN i ELSE SearchFrom(loc, i + 1)

\* the greedy [^/?#]+ : the last index of the run that starts at j
RECURSIVE RunEnd(_, _)
RunEnd(loc, j) ==
    IF j + 1 <= Len(loc) /\ loc[j + 1] \notin TagStop THEN RunEnd(loc, j + 1) ELSE j

\* match.group(1)
Group1(loc, i) == SubSeq(loc, i + Len(TagPrefix), RunEnd(loc, i + Len(TagPrefix)))

\* s.split(ch)[0]
RECURSIVE SplitHead(_, _)
SplitHead(s, ch) ==
    IF s = <<>> \/ Head(s) = ch THEN <<>> ELSE <<Head(s)>> \o SplitHead(Tail(s), ch)

\* _extract_uv_version_from_location
ExtractLastTag(location) ==
    LET hits == {i \in 1..Len(location) : MatchAt(location, i)}
    IN  IF hits = {} THEN <<>>
        ELSE LET i == CHOOSE h \in hits : \A g \in hits : g <= h
             IN  Trim(StrV(SplitHead(Group1(location, i), "?")))
ExtractUntrimmed(location) ==
    LET i == SearchFrom(location, 1)
    IN  IF i = 0 THEN <<>> ELSE SplitHead(Group1(location, i), "?")
ExtractUvVersionFromLocation(location) ==
    LET i == SearchFrom(location, 1)
    IN  IF i = 0 THEN <<>> ELSE Trim(StrV(SplitHead(Group1(location, i), "?")))

MsgNoLocation ==
    [text |-> "GitHub redirected for the latest uv release but did not provide a Location header."]
MsgExtractFailed ==
    [text |-> "Failed to extract the uv release version from redirect Location header."]
MsgNoRedirect ==
    [text |-> "Expected GitHub to redirect for the latest uv release, but the request completed without a redirect."]

\* resolve(): what follows a head() that returned
UvNoRedirectSilent == Ok(<<>>)
UvNoRedirect == ResolutionError(MsgNoRedirect)

\* resolve(), from the outcome of head()
UvFinish(r) ==
    CASE r.k = "HTTPError" ->
           IF r.code \in RedirectCodes
           THEN LET location == Get(r.headers, "Location")
                IN  IF ~Truthy(location) THEN ResolutionError(MsgNoLocation)
                    ELSE LET version == ExtractUvVersionFromLocation(location.s)
                         IN  IF version = <<>> THEN ResolutionError(MsgExtractFailed)
                             ELSE Ok(version)
           ELSE ResolutionError(
                  [text |-> "Unexpected response retrieving latest uv release: HTTP {code}",
                   code |-> r.code])
      [] r.k = "URLError" ->
           ResolutionError([text |-> "Unable to discover the latest uv release: {exc}"])
      [] r.k = "ok" -> UvNoRedirect

---------------------------------------------------------------------------
(* PythonResolver *)

MsgUnset ==
    [text |-> "Cannot determine Python version because the AIPscan version is unset."]

\* _fetch_text, from the outcome of fetch_bytes: the text, or what is raised
FetchTextNoUrl(r, url) ==
    CASE r.k = "HTTPError" ->
           ResolutionError([text |-> "HTTP {code} retrieving the file", code |-> r.code])
      [] r.k = "URLError" ->
           ResolutionError([text |-> "Unable to retrieve text from {url}: {exc}",
                            url |-> url])
      [] r.k = "ok" ->
           IF ~r.body.utf8 THEN Raised("UnicodeDecodeError", [text |-> "decode"])
           ELSE Ok(r.body.text)
FetchText(r, url) ==
    CASE r.k = "HTTPError" ->
           ResolutionError([text |-> "HTTP {code} retrieving {url}",
                            code |-> r.code, url |-> url])
      [] r.k = "URLError" ->
           ResolutionError([text |-> "Unable to retrieve text from {url}: {exc}",
                            url |-> url])
      [] r.k = "ok" ->
           IF ~r.body.utf8 THEN Raised("UnicodeDecodeError", [text |-> "decode"])
           ELSE Ok(r.body.text)

\* resolve(aipscan_version), after the explicit value and the argument were checked
PythonFinish(r, aipscan_version) ==
    LET source_url == PYTHON_VERSION_TEMPLATE(aipscan_version.s)
        content == FetchText(r, source_url)
    IN  IF content.k = "err" THEN content
        ELSE LET version == Trim(StrV(content.v))
             IN  IF version = <<>>
                 THEN ResolutionError(
                        [text |-> "The .python-version file for AIPscan {aipscan_version} was empty or whitespace-only.",
                         aipscan_version |-> aipscan_version.s])
                 ELSE Ok(version)

---------------------------------------------------------------------------
(* ActionModule *)

\* _gather_params with the precedence reversed
GatherParamsVarsWin(tv, ta) ==
    [k \in ((DOMAIN tv \cap ParamKeys) \cup DOMAIN ta) |->
        IF k \in DOMAIN tv \cap ParamKeys THEN tv[k] ELSE ta[k]]

\* _gather_params: the four known keys of task_vars, then every task argument on top
GatherParams(tv, ta) ==
    [k \in ((DOMAIN tv \cap ParamKeys) \cup DOMAIN ta) |->
        IF k \in DOMAIN ta THEN ta[k] ELSE tv[k]]

Digits == <<"0", "1", "2", "3", "4", "5", "6", "7", "8", "9">>
IsDigit(c) == \E i \in 1..Len(Digits) : Digits[i] = c
DigitValue(c) == (CHOOSE i \in 1..Len(Digits) : Digits[i] = c) - 1

RECURSIVE DigitsValue(_)
DigitsValue(s) ==
    IF s = <<>> THEN 0 ELSE 10 * DigitsValue(SubSeq(s, 1, Len(s) - 1)) + DigitValue(s[Len(s)])

\* int(str): surrounding whitespace, an optional sign, then digits
IntBody(s) == IF s # <<>> /\ Head(s) \in {"+", "-"} THEN Tail(s) ELSE s
IntParses(s) ==
    LET b == IntBody(Strip(s)) IN b # <<>> /\ \A i \in 1..Len(b) : IsDigit(b[i])
IntOfStr(s) ==
    LET t == Strip(s)
    IN  IF Head(t) = "-" THEN 0 - DigitsValue(IntBody(t)) ELSE DigitsValue(IntBody(t))

\* int(float): the fraction is dropped, towards zero
Truncate(tenths) == IF tenths >= 0 THEN tenths \div 10 ELSE 0 - ((0 - tenths) \div 10)

\* _normalize_timeout: int(value) raises OverflowError for an infinite float,
\* which except (TypeError, ValueError) does not catch
NormalizeTimeoutRaises(value) == value.t = "float" /\ value.f \in {"inf", "-inf"}

\* _normalize_timeout: the value returned (when nothing is raised)
NormalizeTimeout(value) ==
    CASE value.t = "int" -> IF value.n <= 0 THEN DEFAULT_TIMEOUT ELSE value.n
      [] value.t = "str" ->
           IF ~IntParses(value.s) THEN DEFAULT_TIMEOUT
           ELSE IF IntOfStr(value.s) <= 0 THEN DEFAULT_TIMEOUT ELSE IntOfStr(value.s)
      [] value.t = "bool" -> IF value.b THEN 1 ELSE DEFAULT_TIMEOUT
      [] value.t = "float" /\ value.f = "finite" ->
           IF Truncate(value.tenths) <= 0 THEN DEFAULT_TIMEOUT ELSE Truncate(value.tenths)
      [] OTHER -> DEFAULT_TIMEOUT

\* the resolvers' constructors: self.explicit_value = explicit_value or ""
OrEmpty(v) == IF Truthy(v) THEN v ELSE StrV(<<>>)

\* ResolverFactory.build
Build(p) == [r \in Resolvers |-> OrEmpty(Get(p, VersionKey(r)))]

ResolverOf(k) == CHOOSE r \in Resolvers : VersionKey(r) = k

\* run(): the dictionary returned when a ResolutionError was caught; str(exc)
\* of an exception raised with one message is that message
FailedResultPartialFacts(exc, oc) ==
    [failed |-> TRUE, msg |-> exc.msg,
     ansible_facts |-> [k \in {VersionKey(r) : r \in {q \in Resolvers : oc[q].k = "ok"}} |->
                          oc[ResolverOf(k)].v]]
FailedResult(exc, oc) == [failed |-> TRUE, msg |-> exc.msg]

\* run(): the dictionary returned when the three resolvers returned
SuccessResultSwapped(oc) ==
    [changed |-> FALSE,
     ansible_facts |-> [k \in FactKeys |->
                          IF k = "aipscan_uv_version" THEN oc["python"].v
                          ELSE IF k = "aipscan_python_version" THEN oc["uv"].v
                          ELSE oc["aipscan"].v]]
SuccessResult(oc) ==
    [changed |-> FALSE, ansible_facts |-> [k \in FactKeys |-> oc[ResolverOf(k)].v]]

---------------------------------------------------------------------------
(* Inputs: what the callers pass and what the network answers *)

\* all dictionaries with keys among K and values among V
Dicts(K, V) == UNION {[S -> V] : S \in SUBSET K}

Blank == StrV(<<" ">>)
Padded == StrV(<<" ", "7", "\n">>)

\* task arguments and task variables of a run
RunTaskArgs ==
    {a \in Dicts(ParamKeys, {Blank, Padded, IntV(30)}) :
        /\ \A k \in DOMAIN a \cap FactKeys : a[k].t = "str"
        /\ "timeout" \in DOMAIN a => a["timeout"] = IntV(30)}
RunTaskVars ==
    {EmptyDict,
     [k \in ParamKeys \cup {"inventory_hostname"} |->
        IF k = "timeout" THEN StrV(<<"a">>) ELSE StrV(<<"9">>)],
     [k \in {"timeout"} |-> FloatV("inf", 0)]}

\* values given to _normalize_timeout directly
TimeoutChars == {"0", "1", "2", "-", "+", " ", "a"}
RECURSIVE StringsUpTo(_)
StringsUpTo(n) ==
    IF n = 0 THEN {<<>>}
    ELSE LET shorter == StringsUpTo(n - 1)
         IN  shorter \cup {<<c>> \o t : c \in TimeoutChars, t \in shorter}
TimeoutValues ==
    {NoneV, ListV, BoolV(TRUE), BoolV(FALSE),
     FloatV("inf", 0), FloatV("-inf", 0), FloatV("nan", 0)}
    \cup {IntV(n) : n \in (0 - MaxTimeout)..MaxTimeout}
    \cup {FloatV("finite", n) : n \in (0 - MaxTimeout)..MaxTimeout}
    \cup {StrV(x) : x \in StringsUpTo(MaxTimeoutLen)}

\* constructor and call arguments of a resolver driven directly
ExplicitValues == {NoneV, StrV(<<>>), Blank, Padded}
PackageVersions == {NoneV, StrV(<<>>), StrV(<<"1">>)}

\* Location headers: every concatenation of at most n pieces
LocPieces == {TagPrefix, <<"/">>, <<"?">>, <<"#">>, <<" ">>, <<"1">>}
RECURSIVE Concats(_)
Concats(n) ==
    IF n = 0 THEN {<<>>}
    ELSE LET shorter == Concats(n - 1)
         IN  shorter \cup {p \o t : p \in LocPieces, t \in shorter}
RunLocations == {<<>>, TagPrefix \o <<"0">>, <<"/", "x">>}
Locations == IF mode = "resolver" THEN Concats(MaxPieces) ELSE RunLocations

NoHeaders == [k \in {} |-> NoneV]
LocationHeader(l) == [k \in {"Location"} |-> StrV(l)]

StatusCodes == RedirectCodes \cup {304, 404, 503}

\* the errors an attempt of resolver r can end with
HTTPErrors(r) ==
    IF r = "uv"
    THEN {HTTPError(c, NoHeaders) : c \in StatusCodes}
         \cup {HTTPError(c, LocationHeader(l)) : c \in RedirectCodes, l \in Locations}
    ELSE {HTTPError(c, NoHeaders) : c \in StatusCodes}

VersionDoc(v) == DictV([k \in {"info"} |-> DictV([j \in {"version"} |-> v])])
\* the bodies a successful attempt of resolver r can deliver
Bodies(r) ==
    CASE r = "aipscan" ->
           {Undecodable, JsonBody(NotJson), JsonBody(ListV), JsonBody(DictV(EmptyDict)),
            JsonBody(DictV([k \in {"info"} |-> NoneV])),
            JsonBody(DictV([k \in {"info"} |-> DictV(EmptyDict)]))}
           \cup {JsonBody(VersionDoc(v)) :
                   v \in {NoneV, IntV(4), StrV(<<>>), Blank, StrV(<<"4">>),
                          StrV(<<" ", "5", "\n">>)}}
      [] r = "python" ->
           {Undecodable, TextBody(<<>>), TextBody(<<" ", "\n">>), TextBody(<<"3", "\n">>),
            TextBody(<<"2">>)}
      [] OTHER -> {TextBody(<<>>)}

---------------------------------------------------------------------------
(* Initial states *)

NoResponse == [k |-> "none"]

\* ActionModule constructed with the default ResolverFactory, run() not yet called
Init ==
    /\ mode = "run"
    /\ task_vars \in RunTaskVars
    /\ task_args \in RunTaskArgs
    /\ params = EmptyDict
    /\ timeout = 0
    /\ pc = "start"
    /\ cur = "none"
    /\ rpc = "idle"
    /\ explicit = [r \in Resolvers |-> StrV(<<>>)]
    /\ pyarg = NoneV
    /\ outcome = [r \in Resolvers |-> NotRun]
    /\ invoked = <<>>
    /\ retries = 0
    /\ backoff = 0
    /\ attempt = 0
    /\ tried = <<>>
    /\ resp = NoResponse
    /\ calls = <<>>
    /\ requests = 0
    /\ slept = <<>>
    /\ result = EmptyDict

\* one resolver constructed with a default HttpClient and its resolve() called
InitResolver ==
    /\ mode = "resolver"
    /\ task_vars = EmptyDict
    /\ task_args = EmptyDict
    /\ params = EmptyDict
    /\ timeout = 10
    /\ pc = "direct"
    /\ cur \in Resolvers
    /\ rpc = "entry"
    /\ \E e \in ExplicitValues :
          explicit = [r \in Resolvers |-> IF r = cur THEN OrEmpty(e) ELSE StrV(<<>>)]
    /\ pyarg \in (IF cur = "python" THEN PackageVersions ELSE {NoneV})
    /\ outcome = [r \in Resolvers |-> NotRun]
    /\ invoked = <<cur>>
    /\ retries = HttpClientRetries(HTTP_RETRIES)
    /\ backoff = HttpClientBackoff(HTTP_RETRY_BACKOFF)
    /\ attempt = 0
    /\ tried = <<>>
    /\ resp = NoResponse
    /\ calls = <<>>
    /\ requests = 0
    /\ slept = <<>>
    /\ result = EmptyDict

\* an HttpClient constructed with given arguments, _request_with_retry entered
InitHttp ==
    /\ mode = "http"
    /\ task_vars = EmptyDict
    /\ task_args = EmptyDict
    /\ params = EmptyDict
    /\ timeout = 10
    /\ pc = "direct"
    /\ cur = "none"
    /\ rpc = "request"
    /\ explicit = [r \in Resolvers |-> StrV(<<>>)]
    /\ pyarg = NoneV
    /\ outcome = [r \in Resolvers |-> NotRun]
    /\ invoked = <<>>
    /\ \E r \in 0..MaxRetries : retries = HttpClientRetries(r)
    /\ \E b \in {0 - HTTP_RETRY_BACKOFF, 0, HTTP_RETRY_BACKOFF} :
          backoff = HttpClientBackoff(b)
    /\ attempt = 0
    /\ tried = <<>>
    /\ resp = NoResponse
    /\ calls = <<>>
    /\ requests = 0
    /\ slept = <<>>
    /\ result = EmptyDict

\* _normalize_timeout about to be called with one value, or with the None
\* that params.get gives for a missing key
InitTimeout ==
    /\ mode = "timeout"
    /\ task_vars = EmptyDict
    /\ task_args = EmptyDict
    /\ params \in {EmptyDict} \cup {[k \in {"timeout"} |-> v] : v \in TimeoutValues}
    /\ timeout = 0
    /\ pc = "start"
    /\ cur = "none"
    /\ rpc = "idle"
    /\ explicit = [r \in Resolvers |-> StrV(<<>>)]
    /\ pyarg = NoneV
    /\ outcome = [r \in Resolvers |-> NotRun]
    /\ invoked = <<>>
    /\ retries = 0
    /\ backoff = 0
    /\ attempt = 0
    /\ tried = <<>>
    /\ resp = NoResponse
    /\ calls = <<>>
    /\ requests = 0
    /\ slept = <<>>
    /\ result = EmptyDict

---------------------------------------------------------------------------
(* Actions *)

\* run(), line 278: the argument given to python_resolver.resolve
PythonArgumentFromParams(oc) == StrV(Trim(explicit["aipscan"]))
PythonArgument(oc) == StrV(oc["aipscan"].v)

\* run() up to the call of aipscan_resolver.resolve()
RunStart ==
    /\ pc = "start"
    /\ mode = "run"
    /\ params' = GatherParams(task_vars, task_args)
    /\ IF NormalizeTimeoutRaises(Get(params', "timeout"))
       THEN /\ pc' = "crashed"
            /\ UNCHANGED <<timeout, retries, backoff, explicit, cur, rpc, invoked>>
       ELSE /\ timeout' = NormalizeTimeout(Get(params', "timeout"))
            /\ retries' = HttpClientRetries(HTTP_RETRIES)
            /\ backoff' = HttpClientBackoff(HTTP_RETRY_BACKOFF)
            /\ explicit' = Build(params')
            /\ pc' = "resolving"
            /\ cur' = ResolverOrder[1]
            /\ rpc' = "entry"
            /\ invoked' = Append(invoked, ResolverOrder[1])
    /\ UNCHANGED <<mode, task_vars, task_args, pyarg, outcome, attempt, tried, resp,
                   calls, requests, slept, result>>

\* _normalize_timeout called on the timeout parameter
NormalizeCall ==
    /\ pc = "start"
    /\ mode = "timeout"
    /\ IF NormalizeTimeoutRaises(Get(params, "timeout"))
       THEN pc' = "raised" /\ UNCHANGED timeout
       ELSE pc' = "normalized" /\ timeout' = NormalizeTimeout(Get(params, "timeout"))
    /\ UNCHANGED <<mode, task_vars, task_args, params, cur, rpc, explicit, pyarg, outcome,
                   invoked, retries, backoff, attempt, tried, resp, calls, requests,
                   slept, result>>

\* the transport call a resolver makes when it has to discover its version
TransportCall(r, arg, t) ==
    CASE r = "aipscan" ->
           [resolver |-> r, method |-> "fetch_bytes", url |-> PYPI_AIPSCAN_METADATA_URL,
            timeout |-> t]
      [] r = "uv" ->
           [resolver |-> r, method |-> "head", url |-> UV_LATEST_RELEASE_URL,
            timeout |-> t]
      [] r = "python" ->
           [resolver |-> r, method |-> "fetch_bytes",
            url |-> PYTHON_VERSION_TEMPLATE(arg.s), timeout |-> t]

\* resolve(): whether the explicit value settles the version
UsesExplicitUntrimmed(e) == e.s # <<>>
UsesExplicit(e) == Trim(e) # <<>>

\* PythonResolver.resolve: not aipscan_version
VersionUnsetNoneOnly(arg) == arg.t = "none"
VersionUnset(arg) == ~Truthy(arg)

\* the attempt counter of an earlier call carried into this one
FirstAttemptCarried == attempt

\* _request_with_retry: attempt = 0 at the start of every call
FirstAttempt == 0

\* resolve() from its entry to its return, its raise, or its transport call
ResolveEntry ==
    /\ rpc = "entry"
    /\ IF UsesExplicit(explicit[cur])
       THEN /\ outcome' = [outcome EXCEPT ![cur] = Ok(Trim(explicit[cur]))]
            /\ rpc' = "done"
            /\ UNCHANGED <<calls, attempt, tried, slept, resp>>
       ELSE IF cur = "python" /\ VersionUnset(pyarg)
       THEN /\ outcome' = [outcome EXCEPT ![cur] = ResolutionError(MsgUnset)]
            /\ rpc' = "done"
            /\ UNCHANGED <<calls, attempt, tried, slept, resp>>
       ELSE /\ calls' = Append(calls, TransportCall(cur, pyarg, timeout))
            /\ attempt' = FirstAttempt
            /\ tried' = <<>>
            /\ slept' = <<>>
            /\ resp' = NoResponse
            /\ rpc' = "request"
            /\ UNCHANGED outcome
    /\ UNCHANGED <<mode, task_vars, task_args, params, timeout, pc, cur, explicit, pyarg,
                   invoked, retries, backoff, requests, result>>

\* _request_with_retry: call() returns a response
AttemptOk ==
    /\ rpc = "request"
    /\ \E b \in Bodies(cur) :
          /\ tried' = Append(tried, OkResponse(b))
          /\ resp' = OkResponse(b)
    /\ requests' = requests + 1
    /\ rpc' = "http_done"
    /\ UNCHANGED <<mode, task_vars, task_args, params, timeout, pc, cur, explicit, pyarg,
                   outcome, invoked, retries, backoff, attempt, calls, slept, result>>

\* _request_with_retry: call() raises HTTPError
AttemptHTTPError ==
    /\ rpc = "request"
    /\ \E e \in HTTPErrors(cur) :
          /\ tried' = Append(tried, e)
          /\ IF RaiseHTTPError(e.code, attempt, retries)
             THEN /\ resp' = e
                  /\ rpc' = "http_done"
                  /\ UNCHANGED <<attempt, slept>>
             ELSE /\ slept' = Sleep(slept, backoff, attempt)
                  /\ attempt' = attempt + 1
                  /\ UNCHANGED <<resp, rpc>>
    /\ requests' = requests + 1
    /\ UNCHANGED <<mode, task_vars, task_args, params, timeout, pc, cur, explicit, pyarg,
                   outcome, invoked, retries, backoff, calls, result>>

\* _request_with_retry: call() raises URLError
AttemptURLError ==
    /\ rpc = "request"
    /\ tried' = Append(tried, URLError)
    /\ IF RaiseURLError(attempt, retries)
       THEN /\ resp' = URLError
            /\ rpc' = "http_done"
            /\ UNCHANGED <<attempt, slept>>
       ELSE /\ slept' = Sleep(slept, backoff, attempt)
            /\ attempt' = attempt + 1
            /\ UNCHANGED <<resp, rpc>>
    /\ requests' = requests + 1
    /\ UNCHANGED <<mode, task_vars, task_args, params, timeout, pc, cur, explicit, pyarg,
                   outcome, invoked, retries, backoff, calls, result>>

\* resolve() from the end of its transport call to its return or raise
Finish(r, got, arg) ==
    CASE r = "aipscan" -> AIPscanFinish(got)
      [] r = "uv"      -> UvFinish(got)
      [] r = "python"  -> PythonFinish(got, arg)

ResolveFinish ==
    /\ rpc = "http_done"
    /\ cur \in Resolvers
    /\ outcome' = [outcome EXCEPT ![cur] = Finish(cur, resp, pyarg)]
    /\ rpc' = "done"
    /\ UNCHANGED <<mode, task_vars, task_args, params, timeout, pc, cur, explicit, pyarg,
                   invoked, retries, backoff, attempt, tried, resp, calls,
                   requests, slept, result>>

\* run(): the resolver after r, "none" after the last
NextResolver(r) ==
    CASE r = ResolverOrder[1] -> ResolverOrder[2]
      [] r = ResolverOrder[2] -> ResolverOrder[3]
      [] OTHER -> "none"

\* run() from the end of one resolve() to the call of the next, or to its end
RunStep ==
    /\ pc = "resolving"
    /\ rpc = "done"
    /\ LET oc == outcome[cur]
       IN  IF oc.k = "err"
           THEN /\ IF oc.type = "ResolutionError"
                   THEN pc' = "returned" /\ result' = FailedResult(oc, outcome)
                   ELSE pc' = "crashed" /\ UNCHANGED result
                /\ rpc' = "idle"
                /\ UNCHANGED <<cur, invoked, pyarg>>
           ELSE IF NextResolver(cur) = "none"
           THEN /\ pc' = "returned"
                /\ result' = SuccessResult(outcome)
                /\ rpc' = "idle"
                /\ UNCHANGED <<cur, invoked, pyarg>>
           ELSE /\ cur' = NextResolver(cur)
                /\ rpc' = "entry"
                /\ invoked' = Append(invoked, NextResolver(cur))
                /\ pyarg' = IF NextResolver(cur) = "python" THEN PythonArgument(outcome)
                            ELSE pyarg
                /\ UNCHANGED <<pc, result>>
    /\ UNCHANGED <<mode, task_vars, task_args, params, timeout, explicit, outcome,
                   retries, backoff, attempt, tried, resp, calls, requests, slept>>

Next ==
    \/ RunStart
    \/ ResolveEntry
    \/ AttemptOk
    \/ AttemptHTTPError
    \/ AttemptURLError
    \/ ResolveFinish
    \/ RunStep

NextResolve ==
    \/ ResolveEntry
    \/ AttemptOk
    \/ AttemptHTTPError
    \/ AttemptURLError
    \/ ResolveFinish

NextHttp ==
    \/ AttemptOk
    \/ AttemptHTTPError
    \/ AttemptURLError

\* ActionModule.run with the default resolvers
Spec == Init /\ [][Next]_vars
\* one resolve() call of one resolver
SpecResolver == InitResolver /\ [][NextResolve]_vars
\* one _request_with_retry call
SpecHttp == InitHttp /\ [][NextHttp]_vars
\* one _normalize_timeout call
NextTimeout == NormalizeCall
SpecTimeout == InitTimeout /\ [][NextTimeout]_vars

---------------------------------------------------------------------------
(* Claims about ActionModule.run (specification Spec) *)

IsResolutionError(o) == o.k = "err" /\ o.type = "ResolutionError"

\* C1: when a resolver raised ResolutionError, run() returns a result with
\* failed = True, msg equal to the message of that error, and no ansible_facts,
\* whatever the resolvers before it returned.
C1_FailureSurfaced ==
    \A r \in Resolvers :
        (IsResolutionError(outcome[r]) /\ rpc = "idle") =>
            /\ pc = "returned"
            /\ "failed" \in DOMAIN result
            /\ result.failed = TRUE
            /\ "msg" \in DOMAIN result
            /\ result.msg = outcome[r].msg
            /\ "ansible_facts" \notin DOMAIN result

\* the third resolver failed after the first two had returned a version
C1_Witness ==
    /\ pc = "returned"
    /\ outcome["aipscan"].k = "ok"
    /\ outcome["uv"].k = "ok"
    /\ IsResolutionError(outcome["python"])
    /\ result.failed = TRUE

\* C2: when the three resolvers returned, the result has changed = False, no
\* failed mark, and ansible_facts with exactly the three keys, each holding
\* what its resolver returned.
C2_SuccessPublishesFacts ==
    ((\A r \in Resolvers : outcome[r].k = "ok") /\ rpc = "idle") =>
        /\ pc = "returned"
        /\ "changed" \in DOMAIN result
        /\ result.changed = FALSE
        /\ "failed" \notin DOMAIN result
        /\ "ansible_facts" \in DOMAIN result
        /\ DOMAIN result.ansible_facts =
              {"aipscan_version", "aipscan_uv_version", "aipscan_python_version"}
        /\ result.ansible_facts["aipscan_version"] = outcome["aipscan"].v
        /\ result.ansible_facts["aipscan_uv_version"] = outcome["uv"].v
        /\ result.ansible_facts["aipscan_python_version"] = outcome["python"].v

\* the three versions were discovered and differ from one another
C2_Witness ==
    /\ pc = "returned"
    /\ \A r \in Resolvers : outcome[r].k = "ok"
    /\ Len(calls) = 3
    /\ outcome["uv"].v # outcome["python"].v
    /\ outcome["aipscan"].v # outcome["uv"].v

\* C3: resolve() is called in the order package, tool, interpreter, each at
\* most once; a resolver is called only after those before it returned a
\* version; after a failure nothing more is called or requested; and the
\* interpreter resolver is given the value the package resolver returned.
C3_OrderAndDependency ==
    /\ Len(invoked) <= Len(ResolverOrder)
    /\ \A i \in 1..Len(invoked) : invoked[i] = ResolverOrder[i]
    /\ \A i \in 1..Len(invoked) : \A j \in 1..(i - 1) : outcome[ResolverOrder[j]].k = "ok"
    /\ \A r \in Resolvers :
          outcome[r].k # "none" => \E i \in 1..Len(invoked) : invoked[i] = r
    /\ \A i \in 1..Len(calls) : \E j \in 1..Len(invoked) : invoked[j] = calls[i].resolver
    /\ \A r \in Resolvers :
          outcome[r].k = "err" =>
              /\ invoked[Len(invoked)] = r
              /\ rpc \in {"done", "idle"}
    /\ (\E i \in 1..Len(invoked) : invoked[i] = "python") =>
          /\ pyarg.t = "str"
          /\ pyarg.s = outcome["aipscan"].v

\* the three resolvers ran, and the interpreter resolver was given the package
\* version that discovery had returned trimmed
C3_Witness ==
    /\ Len(invoked) = 3
    /\ pc = "returned"
    /\ outcome["python"].k = "ok"
    /\ pyarg = StrV(<<"5">>)
    /\ Len(calls) = 3

---------------------------------------------------------------------------
(* Claims about resolve() of one resolver (specification SpecResolver) *)

HasNonWhitespace(s) == \E i \in 1..Len(s) : s[i] \notin Whitespace
AllWhitespace(s) == \A i \in 1..Len(s) : s[i] \in Whitespace

\* v is s without its leading and trailing whitespace
IsStripOf(v, s) ==
    /\ v # <<>>
    /\ v[1] \notin Whitespace
    /\ v[Len(v)] \notin Whitespace
    /\ \E i \in 0..Len(s) :
          /\ i + Len(v) <= Len(s)
          /\ SubSeq(s, i + 1, i + Len(v)) = v
          /\ AllWhitespace(SubSeq(s, 1, i))
          /\ AllWhitespace(SubSeq(s, i + Len(v) + 1, Len(s)))

\* C4: with an explicit value that holds a non-whitespace character, resolve()
\* returns that value without its leading and trailing whitespace and the
\* HTTP client is never called; for PythonResolver whatever aipscan_version is.
C4_ExplicitShortCircuits ==
    (cur \in Resolvers /\ HasNonWhitespace(explicit[cur].s)) =>
        /\ calls = <<>>
        /\ requests = 0
        /\ rpc \in {"entry", "done"}
        /\ rpc = "done" =>
              /\ outcome[cur].k = "ok"
              /\ IsStripOf(outcome[cur].v, explicit[cur].s)

\* PythonResolver returned its padded explicit value with an empty aipscan_version
C4_Witness ==
    /\ cur = "python"
    /\ rpc = "done"
    /\ explicit["python"] = Padded
    /\ pyarg = StrV(<<>>)
    /\ outcome["python"] = Ok(<<"7">>)

\* C5: an explicit value that is absent, empty or only whitespace counts as
\* not given: resolve() goes on to discovery, and what it returns or raises
\* is what discovery alone gives, the same for every such explicit value.
C5_BlankFallsThrough ==
    (cur \in Resolvers /\ ~HasNonWhitespace(explicit[cur].s) /\ rpc # "entry") =>
        IF cur = "python" /\ (pyarg.t = "none" \/ pyarg.s = <<>>)
        THEN /\ rpc = "done"
             /\ outcome[cur] = ResolutionError(MsgUnset)
             /\ calls = <<>>
        ELSE /\ Len(calls) = 1
             /\ calls[1].resolver = cur
             /\ rpc = "done" =>
                   /\ requests >= 1
                   /\ outcome[cur] = Finish(cur, resp, pyarg)
                   /\ outcome[cur].k = "ok" => outcome[cur].v # <<>>

\* a whitespace-only explicit value, and the version came from the network
C5_Witness ==
    /\ cur \in Resolvers
    /\ explicit[cur] = Blank
    /\ rpc = "done"
    /\ outcome[cur].k = "ok"
    /\ requests >= 1

---------------------------------------------------------------------------
(* Claims about _request_with_retry (specification SpecHttp) *)

Retryable(o) == o.k = "URLError" \/ (o.k = "HTTPError" /\ o.code >= 500)

\* C6: with budget R >= 1, while every attempt fails with a server error or a
\* network error, in any mix, the call goes on up to the R-th attempt and
\* ends there: exactly R attempts, and the error raised is the one of the
\* R-th attempt as it was.
C6_RetryBudgetExhausted ==
    /\ retries >= 1
    /\ (\A i \in 1..Len(tried) : Retryable(tried[i])) =>
          /\ Len(tried) <= retries
          /\ IF Len(tried) = retries
             THEN rpc = "http_done" /\ resp = tried[retries]
             ELSE rpc = "request" /\ attempt = Len(tried)

\* three attempts of a budget of three failed, by a network error, a 503 and
\* a network error again
C6_Witness ==
    /\ retries = 3
    /\ Len(tried) = 3
    /\ tried[1] = URLError
    /\ tried[2].k = "HTTPError"
    /\ tried[3] = URLError
    /\ rpc = "http_done"
    /\ resp = URLError

\* C7: an HTTPError with a status below 500 ends the call on the attempt where
\* it occurs: it is the last attempt, it is what the call raises, and no pause
\* is taken after it.
C7_ClientErrorNotRetried ==
    \A i \in 1..Len(tried) :
        (tried[i].k = "HTTPError" /\ tried[i].code < 500) =>
            /\ i = Len(tried)
            /\ rpc = "http_done"
            /\ resp = tried[i]
            /\ attempt = i - 1
            /\ Len(slept) = (IF backoff > 0 THEN i - 1 ELSE 0)

\* a redirect status surfaced on the second attempt, after one retried failure
C7_Witness ==
    /\ Len(tried) = 2
    /\ tried[1] = URLError
    /\ tried[2].k = "HTTPError"
    /\ tried[2].code = 302
    /\ retries = 3
    /\ backoff > 0
    /\ slept = <<backoff>>
    /\ rpc = "http_done"

---------------------------------------------------------------------------
(* Claim about the kinds of error that leave resolve() (specification Spec) *)

\* C8: whatever makes discovery fail (an HTTP error status, a connection
\* error, malformed JSON, a body that does not decode), resolve() raises
\* ResolutionError and nothing else, so run() never ends by an uncaught error.
C8_OnlyResolutionErrors ==
    \A r \in Resolvers :
        outcome[r].k = "err" => (outcome[r].type = "ResolutionError" /\ pc # "crashed")

---------------------------------------------------------------------------
(* Claims about UvResolver.resolve (specification SpecResolver) *)

\* UvResolver.resolve ended after a HEAD request that ended in a redirect status
UvRedirected ==
    /\ cur = "uv"
    /\ rpc = "done"
    /\ resp.k = "HTTPError"
    /\ resp.code \in RedirectCodes

LocationGiven == "Location" \in DOMAIN resp.headers /\ resp.headers["Location"].s # <<>>
LocationText == resp.headers["Location"].s

\* /tag/ stands at position i of loc
TagAt(loc, i) ==
    /\ i + Len(TagPrefix) - 1 <= Len(loc)
    /\ \A j \in 1..Len(TagPrefix) : loc[i + j - 1] = TagPrefix[j]

\* the <value> of the /tag/ at position i: what follows it, cut at the first
\* '/', '?' or '#'
ValueAt(loc, i) ==
    LET rest == SubSeq(loc, i + Len(TagPrefix), Len(loc))
        cuts == {n \in 1..Len(rest) : rest[n] \in {"/", "?", "#"}}
    IN  IF cuts = {} THEN rest
        ELSE SubSeq(rest, 1, (CHOOSE n \in cuts : \A m \in cuts : n <= m) - 1)

\* the positions of the /tag/<value> segments of loc
Segments(loc) == {i \in 1..Len(loc) : TagAt(loc, i)}
NonBlankSegments(loc) == {i \in Segments(loc) : HasNonWhitespace(ValueAt(loc, i))}
NonEmptySegments(loc) == {i \in Segments(loc) : ValueAt(loc, i) # <<>>}

\* C9 as claimed: after a redirect status, no Location gives the "did not
\* provide a Location" error; a Location with a /tag/<value> segment of
\* non-blank <value> gives that <value>, cut and trimmed; a Location with no
\* such segment gives the "Failed to extract" error.
C9_AnyNonBlankSegment ==
    UvRedirected =>
        IF ~LocationGiven THEN outcome["uv"] = ResolutionError(MsgNoLocation)
        ELSE IF NonBlankSegments(LocationText) # {}
        THEN /\ outcome["uv"].k = "ok"
             /\ \E i \in NonBlankSegments(LocationText) :
                   IsStripOf(outcome["uv"].v, ValueAt(LocationText, i))
        ELSE outcome["uv"] = ResolutionError(MsgExtractFailed)

\* C9 as amended: the segment that counts is the first /tag/<value> whose
\* <value> is not empty; its <value>, cut and trimmed, is the result when it
\* is not blank; when it is blank, or there is no such segment, the result is
\* the "Failed to extract" error, whatever segments follow.
C9_FirstNonEmptySegment ==
    UvRedirected =>
        IF ~LocationGiven THEN outcome["uv"] = ResolutionError(MsgNoLocation)
        ELSE LET segs == NonEmptySegments(LocationText)
                 first == CHOOSE i \in segs : \A j \in segs : i <= j
             IN  IF segs # {} /\ HasNonWhitespace(ValueAt(LocationText, first))
                 THEN /\ outcome["uv"].k = "ok"
                      /\ IsStripOf(outcome["uv"].v, ValueAt(LocationText, first))
                 ELSE outcome["uv"] = ResolutionError(MsgExtractFailed)

\* a Location with two segments, whose first value is padded and followed by
\* a query mark: the first one is taken, trimmed
C9_Witness ==
    /\ UvRedirected
    /\ LocationGiven
    /\ LocationText = TagPrefix \o <<" ", "1", "?">>
    /\ resp.code = 308
    /\ outcome["uv"] = Ok(<<"1">>)

\* C10: a HEAD request that returns (no redirect, no error) makes resolve()
\* raise the "completed without a redirect" ResolutionError, never return.
C10_NoRedirectIsFailure ==
    (cur = "uv" /\ rpc = "done" /\ resp.k = "ok") =>
        /\ outcome["uv"] = ResolutionError(MsgNoRedirect)
        /\ outcome["uv"].k # "ok"

\* the HEAD request returned on its third attempt
C10_Witness ==
    /\ cur = "uv"
    /\ rpc = "done"
    /\ resp.k = "ok"
    /\ Len(tried) = 3
    /\ IsResolutionError(outcome["uv"])

\* C11: without an override UvResolver.resolve returns a version only when the
\* transport call ended in an HTTP status 301, 302, 303, 307 or 308; any other
\* HTTP error status (below 500 on the attempt it occurs, 500 and above once
\* the budget is used up) gives a ResolutionError whose message carries that
\* status code.
C11_VersionOnlyFromRedirect ==
    (cur = "uv" /\ rpc = "done" /\ ~HasNonWhitespace(explicit["uv"].s)) =>
        /\ outcome["uv"].k = "ok" =>
              /\ resp.k = "HTTPError"
              /\ resp.code \in {301, 302, 303, 307, 308}
        /\ (resp.k = "HTTPError" /\ resp.code \notin {301, 302, 303, 307, 308}) =>
              /\ IsResolutionError(outcome["uv"])
              /\ "code" \in DOMAIN outcome["uv"].msg
              /\ outcome["uv"].msg.code = resp.code
              /\ resp.code >= 500 => Len(tried) = retries

\* a 503 on each attempt of the budget, reported with its status code
C11_Witness ==
    /\ cur = "uv"
    /\ rpc = "done"
    /\ resp.k = "HTTPError"
    /\ resp.code = 503
    /\ Len(tried) = retries
    /\ IsResolutionError(outcome["uv"])
    /\ outcome["uv"].msg.code = 503

---------------------------------------------------------------------------
(* Claims about the three resolvers alike (specification SpecResolver) *)

\* resolve() ended after a transport call that raised an HTTP error status
\* (for UvResolver: one that is not a redirect)
FailedByStatus ==
    /\ cur \in Resolvers
    /\ rpc = "done"
    /\ resp.k = "HTTPError"
    /\ cur = "uv" => resp.code \notin {301, 302, 303, 307, 308}

\* C12 as claimed: after an HTTP error status the ResolutionError message of
\* each of the three resolvers holds the status code and the requested URL.
C12_MessageHasCodeAndUrl ==
    FailedByStatus =>
        /\ IsResolutionError(outcome[cur])
        /\ "code" \in DOMAIN outcome[cur].msg
        /\ outcome[cur].msg.code = resp.code
        /\ "url" \in DOMAIN outcome[cur].msg
        /\ outcome[cur].msg.url = calls[1].url

\* C12 as amended: the message of each resolver holds the status code; the
\* messages of AIPscanResolver and PythonResolver hold the requested URL as
\* well, the message of UvResolver holds no URL.
C12_MessageHasCodeUrlButForUv ==
    FailedByStatus =>
        /\ IsResolutionError(outcome[cur])
        /\ "code" \in DOMAIN outcome[cur].msg
        /\ outcome[cur].msg.code = resp.code
        /\ IF cur = "uv" THEN "url" \notin DOMAIN outcome[cur].msg
           ELSE /\ "url" \in DOMAIN outcome[cur].msg
                /\ outcome[cur].msg.url = calls[1].url

\* PythonResolver met a 404 for the file of version 1
C12_Witness ==
    /\ FailedByStatus
    /\ cur = "python"
    /\ resp.code = 404
    /\ outcome["python"].msg.code = 404
    /\ outcome["python"].msg.url = PYTHON_VERSION_TEMPLATE(<<"1">>)

\* the version that discovery found before trimming is absent or blank: no
\* info or version key, a null version, a version or a file body of
\* whitespace only
DiscoveredBlank ==
    /\ rpc = "done"
    /\ resp.k = "ok"
    /\ resp.body.utf8
    /\ \/ /\ cur = "aipscan"
          /\ resp.body.json.t = "dict"
          /\ LET d == resp.body.json.d
             IN  \/ "info" \notin DOMAIN d
                 \/ /\ d["info"].t = "dict"
                    /\ \/ "version" \notin DOMAIN d["info"].d
                       \/ d["info"].d["version"].t = "none"
                       \/ /\ d["info"].d["version"].t = "str"
                          /\ ~HasNonWhitespace(d["info"].d["version"].s)
       \/ /\ cur = "python"
          /\ ~HasNonWhitespace(resp.body.text)

\* C13: whatever resolve() returns, from the explicit value, the JSON field,
\* the redirect tag or the file body, is not empty and neither starts nor
\* ends with whitespace; a discovered value that is absent or blank is not
\* returned: a ResolutionError is raised.
C13_ReturnedVersionsTrimmed ==
    /\ \A r \in Resolvers :
          outcome[r].k = "ok" =>
              /\ outcome[r].v # <<>>
              /\ outcome[r].v[1] \notin Whitespace
              /\ outcome[r].v[Len(outcome[r].v)] \notin Whitespace
    /\ DiscoveredBlank => IsResolutionError(outcome[cur])
    /\ (UvRedirected /\ LocationGiven /\ NonBlankSegments(LocationText) = {}) =>
          IsResolutionError(outcome["uv"])

\* the redirect tag was found with whitespace before it and returned without
C13_Witness ==
    /\ UvRedirected
    /\ LocationGiven
    /\ LocationText = TagPrefix \o <<" ", "1">>
    /\ outcome["uv"] = Ok(<<"1">>)

\* C14: PythonResolver.resolve with no usable explicit value and an empty
\* aipscan_version raises the "AIPscan version is unset" ResolutionError at
\* once: the HTTP client is not called.
C14_UnsetVersionFailsAtOnce ==
    (/\ cur = "python"
     /\ ~HasNonWhitespace(explicit["python"].s)
     /\ (pyarg.t = "none" \/ (pyarg.t = "str" /\ pyarg.s = <<>>))
     /\ rpc # "entry") =>
        /\ rpc = "done"
        /\ outcome["python"] = ResolutionError(MsgUnset)
        /\ calls = <<>>
        /\ requests = 0
        /\ tried = <<>>

\* a whitespace-only explicit value and the empty string as aipscan_version
C14_Witness ==
    /\ cur = "python"
    /\ explicit["python"] = Blank
    /\ pyarg = StrV(<<>>)
    /\ rpc = "done"
    /\ outcome["python"] = ResolutionError(MsgUnset)

\* C15: once _gather_params has run, each of the four inputs holds the task
\* argument when the task gives one (whatever the task variables hold), the
\* task variable when only the variables give one, and is absent from the
\* gathered parameters when neither gives one.
C15_ArgumentsOverrideVariables ==
    pc # "start" =>
        \A k \in ParamKeys :
            /\ k \in DOMAIN task_args =>
                  k \in DOMAIN params /\ params[k] = task_args[k]
            /\ (k \notin DOMAIN task_args /\ k \in DOMAIN task_vars) =>
                  k \in DOMAIN params /\ params[k] = task_vars[k]
            /\ (k \notin DOMAIN task_args /\ k \notin DOMAIN task_vars) =>
                  k \notin DOMAIN params

\* an argument that differs from the variable of the same name, next to a
\* key that only the variables give
C15_Witness ==
    /\ pc # "start"
    /\ "aipscan_version" \in DOMAIN task_args
    /\ "aipscan_version" \in DOMAIN task_vars
    /\ task_args["aipscan_version"] # task_vars["aipscan_version"]
    /\ params["aipscan_version"] = task_args["aipscan_version"]
    /\ "aipscan_uv_version" \notin DOMAIN task_args
    /\ params["aipscan_uv_version"] = task_vars["aipscan_uv_version"]

\* C16: _normalize_timeout never fails and returns a positive integer for
\* every input value, the default when the value is absent.
C16_AlwaysPositiveInteger ==
    pc # "start" =>
        /\ pc = "normalized"
        /\ timeout >= 1
        /\ "timeout" \notin DOMAIN params => timeout = DEFAULT_TIMEOUT

\* C17: _request_with_retry returns a response exactly when some attempt
\* k <= R succeeds after k - 1 attempts that each failed with a retryable
\* error: the call stays open for a next attempt while fewer than R attempts
\* were made and all of them failed retryably, the successful attempt is the
\* last one made, and its response is the one returned.
C17_ReturnsFirstSuccess ==
    /\ (rpc = "http_done" /\ resp.k = "ok") <=> (\E k \in 1..Len(tried) : tried[k].k = "ok")
    /\ \A k \in 1..Len(tried) :
          tried[k].k = "ok" =>
              /\ k <= retries
              /\ k = Len(tried)
              /\ requests = k
              /\ rpc = "http_done"
              /\ resp = tried[k]
              /\ \A j \in 1..(k - 1) : Retryable(tried[j])
    /\ rpc = "request" <=>
          (Len(tried) < retries /\ \A j \in 1..Len(tried) : Retryable(tried[j]))

\* budget 3: a server error, a network error, then the response
C17_Witness ==
    /\ retries = 3
    /\ Len(tried) = 3
    /\ tried[1].k = "HTTPError"
    /\ tried[1].code = 503
    /\ tried[2].k = "URLError"
    /\ tried[3].k = "ok"
    /\ rpc = "http_done"
    /\ resp = tried[3]

\* C18: with a backoff unit b > 0, the k-th pause is b * k; one pause is
\* taken per failed attempt that is followed by another attempt, so none
\* after the attempt that ends the call (a success, a non-retryable error or
\* the last attempt of the budget), and at most R - 1 in all.
C18_LinearBackoff ==
    backoff > 0 =>
        /\ \A k \in 1..Len(slept) : slept[k] = backoff * k
        /\ \A k \in 2..Len(slept) : slept[k] - slept[k - 1] = backoff
        /\ Len(slept) = (IF rpc = "request" THEN Len(tried) ELSE Len(tried) - 1)
        /\ Len(slept) <= retries - 1

\* budget 3 used up: two pauses, of one and of two units
C18_Witness ==
    /\ backoff = HTTP_RETRY_BACKOFF
    /\ retries = 3
    /\ rpc = "http_done"
    /\ Len(tried) = 3
    /\ Retryable(tried[3])
    /\ slept = <<HTTP_RETRY_BACKOFF, 2 * HTTP_RETRY_BACKOFF>>

---------------------------------------------------------------------------
(* Claims about the transport calls of one run (specification Spec) *)

\* C19: every transport call counts its attempts from zero, whatever the
\* calls before it used, and may use the whole budget; each resolver makes
\* at most one transport call, so a run never sends more than one budget of
\* requests per call.
C19_RetryCounterPerCall ==
    /\ \A i, j \in 1..Len(calls) : calls[i].resolver = calls[j].resolver => i = j
    /\ rpc = "request" => (attempt = Len(tried) /\ attempt < retries)
    /\ rpc = "request" <=>
          (/\ pc = "resolving"
           /\ calls # <<>>
           /\ calls[Len(calls)].resolver = cur
           /\ outcome[cur] = NotRun
           /\ Len(tried) < retries
           /\ \A j \in 1..Len(tried) : Retryable(tried[j]))
    /\ Len(tried) <= retries
    /\ requests <= Len(calls) * retries
    /\ \A r \in Resolvers :
          outcome[r].k = "err" => Cardinality({i \in 1..Len(calls) : calls[i].resolver = r}) <= 1

\* the second call uses its whole budget after the first call had two
\* failed attempts
C19_Witness ==
    /\ Len(calls) = 2
    /\ calls[2].resolver = "uv"
    /\ outcome["aipscan"].k = "ok"
    /\ Len(tried) = retries
    /\ requests = 2 * retries
    /\ retries = HTTP_RETRIES

\* C20: a run sends at most 3 * R requests and, when it has ended, has
\* returned either the three facts or a failed result.
C20_EndsWithFactsOrFailure ==
    /\ requests <= 3 * HTTP_RETRIES
    /\ pc \notin {"start", "resolving"} =>
          /\ pc = "returned"
          /\ \/ "ansible_facts" \in DOMAIN result
             \/ ("failed" \in DOMAIN result /\ result.failed = TRUE)

---------------------------------------------------------------------------
(* Claims about the interpreter resolver inside a run (specification Spec) *)

\* v is s with exactly its leading and trailing whitespace removed
IsExactStripOf(v, s) ==
    /\ v # <<>>
    /\ v[1] \notin Whitespace
    /\ v[Len(v)] \notin Whitespace
    /\ \E i \in 0..Len(s) :
          /\ i + Len(v) <= Len(s)
          /\ SubSeq(s, i + 1, i + Len(v)) = v
          /\ AllWhitespace(SubSeq(s, 1, i))
          /\ AllWhitespace(SubSeq(s, i + Len(v) + 1, Len(s)))

\* C21: in a run, PythonResolver.resolve is only called with the version the
\* package resolver returned, which is a non-empty string without leading or
\* trailing whitespace (the stripped override when one was given); the
\* "AIPscan version is unset" failure never happens; and the only URL the
\* interpreter resolver fetches is the template with that version as tag.
C21_PythonGetsTrimmedVersion ==
    /\ \A i \in 1..Len(invoked) :
          invoked[i] = "python" =>
              /\ outcome["aipscan"].k = "ok"
              /\ pyarg.t = "str"
              /\ pyarg.s = outcome["aipscan"].v
              /\ pyarg.s # <<>>
              /\ pyarg.s[1] \notin Whitespace
              /\ pyarg.s[Len(pyarg.s)] \notin Whitespace
              /\ HasNonWhitespace(explicit["aipscan"].s) =>
                    IsExactStripOf(pyarg.s, explicit["aipscan"].s)
    /\ \A r \in Resolvers : outcome[r] # ResolutionError(MsgUnset)
    /\ \A i \in 1..Len(calls) :
          calls[i].resolver = "python" =>
              /\ calls[i].url.pre =
                    "https://raw.githubusercontent.com/artefactual-labs/AIPscan/refs/tags/"
              /\ calls[i].url.tag = outcome["aipscan"].v
              /\ calls[i].url.post = "/.python-version"
              /\ calls[i].method = "fetch_bytes"

\* the package version came from an override with whitespace around it, and
\* the version-pin file was fetched for the stripped value
C21_Witness ==
    /\ explicit["aipscan"] = Padded
    /\ pyarg = StrV(<<"7">>)
    /\ calls # <<>>
    /\ calls[Len(calls)].resolver = "python"
    /\ calls[Len(calls)].url.tag = <<"7">>
    /\ outcome["python"].k = "ok"
    /\ pc = "returned"

====
